---- MODULE Spec2Model ----
(***************************************************************************)
(* One call session of the Twilio <-> speech bridge (src/server.js,        *)
(* wss.on("connection") and the closures it creates).  Every callback the  *)
(* Node event loop can run for the connection is one action: inbound       *)
(* WebSocket messages, STT stream events, TTS promise settlements, the     *)
(* 20 ms frame intervals and the 50/100 ms restart timeouts.               *)
(*                                                                         *)
(* Objects nothing distinguishes are kept as multisets: the running        *)
(* setInterval jobs are a bag, and the recognition streams the closure no  *)
(* longer references are counted while they can still emit events.         *)
(***************************************************************************)
EXTENDS Integers, Sequences, FiniteSets, Bags, TLC

\* ---------------------------------------------------------------- bounds
MaxInputs == 3      \* 'start' messages plus final transcripts per connection
MaxMedia  == 1      \* inbound 'media' events per connection
MaxFrames == 1      \* longest synthesized audio, in 160-byte frames
BeepLen   == 1      \* frames of the warm-up tone held in BEEP_FRAMES
LiveInputs == 3     \* MaxInputs of the runs checked for liveness
PaceFrames == 3     \* MaxFrames of the runs checked for pacing
PaceBeep  == 2      \* BeepLen of the runs checked for pacing
MaxDropped == 1     \* discarded inbound messages that are counted
Over      == 8      \* samples tried beyond each end of the 16-bit range
MaxAudio  == 500    \* longest audioContent framed, in bytes
MaxSecs   == 2      \* longest tone, in seconds
PairEvents == 1     \* 'start', 'media' and final transcripts per connection, of two

Sids == {1}         \* streamSid values carried by 'start'

VARIABLES
  wsState,     \* ws.readyState: "OPEN", "CLOSING" or "CLOSED"
  streamSid,   \* 0 is null
  sttStream,   \* the handle the closure holds: [set, ended, rend, err]
  speaking,
  sttClosed,
  mediaCount,
  old,         \* streams no longer referenced that can still emit: [open, ended]
  jobs,        \* bag of the running setInterval frame jobs
  greetTts,    \* greeting synthesizeSpeech calls in flight
  replyTts,    \* reply synthesizeSpeech calls in flight (data handlers at await)
  restart50,   \* pending setTimeout(..., 50) restarts (with readyState check)
  restart100,  \* pending setTimeout(..., 100) restarts (no check)
  clears,      \* 'clear' messages sent
  marks,       \* labels of the 'mark' messages sent, in order
  now,         \* Date.now() as read for the last 'mark' label (0: never read)
  finals,      \* final transcripts delivered so far
  stopped,     \* a 'stop' message has been handled
  lastMedia,   \* what the media branch did with the last 'media' message
  lim,         \* bounds of this run: [inputs, media, frames, beep, dropped]
  dropped,     \* inbound messages no branch handled, counted up to lim.dropped
  call,        \* a module-level function being applied, with its argument
  ret,         \* what that function returned
  env,         \* two connections: the variables each connection callback declared
  run,         \* two connections: each one's peer, pending callbacks and timers
  wire,        \* two connections: the audio written and the messages sent so far
  actor        \* two connections: whose callback ran last (0: none yet)

\* the module-level functions run outside any connection
pure == <<call, ret>>

\* two connections served by the one process
pair == <<env, run, wire, actor>>

Conns == {1, 2}

NoEnv == [streamSid |-> 0, sttStream |-> 0, speaking |-> FALSE, sttClosed |-> FALSE,
          mediaCount |-> 0]

NoRun == [starts |-> 0, medias |-> 0, finals |-> 0, awaiting |-> FALSE,
          tb |-> -1, t |-> -1, restart |-> FALSE]

vars == <<wsState, streamSid, sttStream, speaking, sttClosed, mediaCount,
          old, jobs, greetTts, replyTts, restart50, restart100,
          clears, marks, now, finals, stopped, lastMedia, lim, dropped, pure, pair>>

\* ---------------------------------------------------------------- helpers
NoCall == [fn |-> "none"]

NoMedia == [seen |-> FALSE, spk |-> FALSE, wrote |-> FALSE, dead |-> FALSE]

Null == [set |-> FALSE, ended |-> FALSE, rend |-> FALSE, err |-> FALSE]

\* speechClient.streamingRecognize(request): a fresh duplex stream
NewStream == [set |-> TRUE, ended |-> FALSE, rend |-> FALSE, err |-> FALSE]

\* a stream emits events until its readable side ends or it fails
Emits(s) == s.set /\ ~s.rend /\ ~s.err

\* a stream takes audio while neither side has ended it and it has not failed
StreamOpen(s) == s.set /\ ~s.ended /\ ~s.rend /\ ~s.err

\* recognition streams of this call that are open at this instant
OpenCount == old.open + (IF StreamOpen(sttStream) THEN 1 ELSE 0)

\* sttStream?.end() inside try/catch: ends the handle the closure holds now
EndCurrent == IF sttStream.set THEN [sttStream EXCEPT !.ended = TRUE] ELSE sttStream

\* a setInterval frame job: i of len frames sent; late = created after 'stop';
\* for a reply (the only kind that reads the clock), seen = marks sent when it last ran
NewJob(kind, len) ==
  [kind |-> kind, i |-> 0, len |-> len, late |-> stopped,
   seen |-> IF kind = "reply" THEN Len(marks) ELSE 0]

Put(b, j) == b (+) SetToBag({j})

Take(b, j) == b (-) SetToBag({j})

Running(kind) == {j \in BagToSet(jobs) : j.kind = kind}

\* the handle being replaced is dropped by the closure but keeps its listeners
Supersede ==
  IF ~Emits(sttStream) THEN old
  ELSE IF sttStream.ended THEN [old EXCEPT !.ended = @ + 1]
  ELSE [old EXCEPT !.open = @ + 1]

\* ---------------------------------------------------------------- Init
InitWith(l) ==
  /\ wsState = "OPEN"
  /\ streamSid = 0
  /\ sttStream = Null
  /\ speaking = FALSE
  /\ sttClosed = FALSE
  /\ mediaCount = 0
  /\ old = [open |-> 0, ended |-> 0]
  /\ jobs = EmptyBag
  /\ greetTts = 0
  /\ replyTts = 0
  /\ restart50 = 0
  /\ restart100 = 0
  /\ clears = 0
  /\ marks = <<>>
  /\ now = 0
  /\ finals = 0
  /\ stopped = FALSE
  /\ lastMedia = NoMedia
  /\ lim = l
  /\ dropped = 0
  /\ call = NoCall
  /\ ret = NoCall
  /\ env = [c \in Conns |-> NoEnv]
  /\ run = [c \in Conns |-> NoRun]
  /\ wire = {}
  /\ actor = 0

Init ==
  InitWith([inputs |-> MaxInputs, media |-> MaxMedia, frames |-> MaxFrames,
            beep |-> BeepLen, dropped |-> 0])

\* ---------------------------------------------------------------- timers' target
\* startSTTStream(): sttClosed = false, sttStream = a new recognition stream
startSTTStream ==
  /\ sttClosed' = FALSE
  /\ old' = Supersede
  /\ sttStream' = NewStream

\* ---------------------------------------------------------------- inbound messages
\* the start branch leaving startSTTStream() to the end of the greeting
Start_NoStt(sid) ==
  /\ wsState = "OPEN"
  /\ clears + finals < lim.inputs
  /\ streamSid' = sid
  /\ clears' = clears + 1
  /\ jobs' = Put(jobs, NewJob("beep", lim.beep))
  /\ greetTts' = greetTts + 1
  /\ UNCHANGED <<wsState, sttStream, sttClosed, old, speaking, mediaCount, replyTts,
                 restart50, restart100, marks, now, finals, stopped, lastMedia, lim,
                 dropped, pure, pair>>

\* msg.event === "start": clear, beep interval, greeting TTS call, startSTTStream()
Start(sid) ==
  /\ wsState = "OPEN"
  /\ clears + finals < lim.inputs
  /\ streamSid' = sid
  /\ clears' = clears + 1
  /\ jobs' = Put(jobs, NewJob("beep", lim.beep))
  /\ greetTts' = greetTts + 1
  /\ startSTTStream
  /\ UNCHANGED <<wsState, speaking, mediaCount, replyTts, restart50, restart100,
                 marks, now, finals, stopped, lastMedia, lim, dropped, pure, pair>>

\* the media branch without its `if (speaking) return;`
MediaWrites_NoGuard(nonEmpty) == nonEmpty /\ sttStream.set /\ ~sttClosed

\* the media branch's test before sttStream.write(b)
MediaWrites(nonEmpty) == ~speaking /\ nonEmpty /\ sttStream.set /\ ~sttClosed

\* msg.event === "media": count, drop while speaking, else write to the handle
Media(nonEmpty) ==
  /\ wsState = "OPEN"
  /\ mediaCount < lim.media
  /\ mediaCount' = mediaCount + 1
  /\ lastMedia' = [seen |-> TRUE, spk |-> speaking,
                   wrote |-> MediaWrites(nonEmpty),
                   dead |-> MediaWrites(nonEmpty) /\ ~StreamOpen(sttStream)]
  /\ UNCHANGED <<wsState, streamSid, sttStream, speaking, sttClosed, old, jobs,
                 greetTts, replyTts, restart50, restart100, clears, marks, now,
                 finals, stopped, lim, dropped, pure, pair>>

\* msg.event === "stop": end the current handle, nothing else
Stop ==
  /\ wsState = "OPEN"
  /\ sttStream' = EndCurrent
  /\ stopped' = TRUE
  /\ UNCHANGED <<wsState, streamSid, speaking, sttClosed, mediaCount, old, jobs,
                 greetTts, replyTts, restart50, restart100, clears, marks, now,
                 finals, lastMedia, lim, dropped, pure, pair>>

\* a message handler whose catch block gives the call up: it ends the handle
Ignored_Fatal(ev) ==
  /\ wsState = "OPEN"
  /\ ev \in {"connected", "mark", "unknown", "unparseable"}
  /\ dropped' = IF dropped < lim.dropped THEN dropped + 1 ELSE dropped
  /\ sttStream' = IF ev = "unparseable" THEN EndCurrent ELSE sttStream
  /\ UNCHANGED <<wsState, streamSid, speaking, sttClosed, mediaCount, old,
                 jobs, greetTts, replyTts, restart50, restart100, clears, marks, now,
                 finals, stopped, lastMedia, lim, pure, pair>>

\* "connected", "mark", an unknown event, or a payload JSON.parse rejects:
\* a log line at most
Ignored(ev) ==
  /\ wsState = "OPEN"
  /\ ev \in {"connected", "mark", "unknown", "unparseable"}
  /\ dropped' = IF dropped < lim.dropped THEN dropped + 1 ELSE dropped
  /\ UNCHANGED <<wsState, streamSid, sttStream, speaking, sttClosed, mediaCount, old,
                 jobs, greetTts, replyTts, restart50, restart100, clears, marks, now,
                 finals, stopped, lastMedia, lim, pure, pair>>

\* ---------------------------------------------------------------- transport
\* the peer closes or the socket fails: readyState leaves OPEN before 'close' fires
WsClosing ==
  /\ wsState = "OPEN"
  /\ wsState' = "CLOSING"
  /\ UNCHANGED <<streamSid, sttStream, speaking, sttClosed, mediaCount, old, jobs,
                 greetTts, replyTts, restart50, restart100, clears, marks, now,
                 finals, stopped, lastMedia, lim, dropped, pure, pair>>

\* ws.on("close"): end the current handle
WsClose ==
  /\ wsState = "CLOSING"
  /\ wsState' = "CLOSED"
  /\ sttStream' = EndCurrent
  /\ UNCHANGED <<streamSid, speaking, sttClosed, mediaCount, old, jobs,
                 greetTts, replyTts, restart50, restart100, clears, marks, now,
                 finals, stopped, lastMedia, lim, dropped, pure, pair>>

\* ---------------------------------------------------------------- STT stream events
\* which stream object an event comes from: the current handle, or a
\* superseded one that was (not) ended by this side
Sources == {"cur", "open", "ended"}

Live(src) ==
  CASE src = "cur"   -> Emits(sttStream)
    [] src = "open"  -> old.open > 0
    [] src = "ended" -> old.ended > 0

\* the stream src emits no more events
Silence(src, field) ==
  CASE src = "cur"   -> /\ sttStream' = [sttStream EXCEPT ![field] = TRUE]
                        /\ old' = old
    [] src = "open"  -> /\ old' = [old EXCEPT !.open = @ - 1]
                        /\ sttStream' = sttStream
    [] src = "ended" -> /\ old' = [old EXCEPT !.ended = @ - 1]
                        /\ sttStream' = sttStream

\* on("data") with a final result: speaking = true, then await ttsMuLawFrames
SttFinal(src) ==
  /\ Live(src)
  /\ clears + finals < lim.inputs
  /\ finals' = finals + 1
  /\ speaking' = TRUE
  /\ replyTts' = replyTts + 1
  /\ UNCHANGED <<wsState, streamSid, sttStream, sttClosed, mediaCount, old, jobs,
                 greetTts, restart50, restart100, clears, marks, now, stopped,
                 lastMedia, lim, dropped, pure, pair>>

\* on("data") with no result or an interim result: nothing happens
SttInterim(src) ==
  /\ Live(src)
  /\ UNCHANGED vars

\* on("error"): logged only; the stream is dead afterwards
SttError(src) ==
  /\ Live(src)
  /\ Silence(src, "err")
  /\ UNCHANGED <<wsState, streamSid, speaking, sttClosed, mediaCount, jobs,
                 greetTts, replyTts, restart50, restart100, clears, marks, now,
                 finals, stopped, lastMedia, lim, dropped, pure, pair>>

\* on("end"): sttClosed = true, whichever stream it came from
SttEnd(src) ==
  /\ Live(src)
  /\ Silence(src, "rend")
  /\ sttClosed' = TRUE
  /\ UNCHANGED <<wsState, streamSid, speaking, mediaCount, jobs,
                 greetTts, replyTts, restart50, restart100, clears, marks, now,
                 finals, stopped, lastMedia, lim, dropped, pure, pair>>

\* ---------------------------------------------------------------- TTS settlements
\* greeting synthesizeSpeech resolves with len frames: start the greeting interval
GreetTtsOk(len) ==
  /\ greetTts > 0
  /\ greetTts' = greetTts - 1
  /\ jobs' = Put(jobs, NewJob("greet", len))
  /\ UNCHANGED <<wsState, streamSid, sttStream, speaking, sttClosed, mediaCount, old,
                 replyTts, restart50, restart100, clears, marks, now, finals,
                 stopped, lastMedia, lim, dropped, pure, pair>>

\* greeting synthesizeSpeech rejects: .catch(console.error)
GreetTtsFail ==
  /\ greetTts > 0
  /\ greetTts' = greetTts - 1
  /\ UNCHANGED <<wsState, streamSid, sttStream, speaking, sttClosed, mediaCount, old,
                 jobs, replyTts, restart50, restart100, clears, marks, now,
                 finals, stopped, lastMedia, lim, dropped, pure, pair>>

\* the data handler without its `sttStream?.end(); sttClosed = true;`
ReplyTtsOk_NoEnd(len) ==
  /\ replyTts > 0
  /\ replyTts' = replyTts - 1
  /\ jobs' = Put(jobs, NewJob("reply", len))
  /\ UNCHANGED <<wsState, streamSid, sttStream, speaking, sttClosed, mediaCount, old,
                 greetTts, restart50, restart100, clears, marks, now, finals, stopped,
                 lastMedia, lim, dropped, pure, pair>>

\* reply synthesizeSpeech resolves: start the reply interval, then end the
\* current handle and set sttClosed
ReplyTtsOk(len) ==
  /\ replyTts > 0
  /\ replyTts' = replyTts - 1
  /\ jobs' = Put(jobs, NewJob("reply", len))
  /\ sttStream' = EndCurrent
  /\ sttClosed' = TRUE
  /\ UNCHANGED <<wsState, streamSid, speaking, mediaCount, old, greetTts,
                 restart50, restart100, clears, marks, now, finals, stopped,
                 lastMedia, lim, dropped, pure, pair>>

\* the catch branch without its `speaking = false;`
ReplyTtsFail_KeepsFlag ==
  /\ replyTts > 0
  /\ replyTts' = replyTts - 1
  /\ restart100' = restart100 + 1
  /\ sttStream' = EndCurrent
  /\ sttClosed' = TRUE
  /\ UNCHANGED <<wsState, streamSid, speaking, mediaCount, old, jobs, greetTts,
                 restart50, clears, marks, now, finals, stopped, lastMedia, lim, dropped, pure, pair>>

\* reply synthesizeSpeech rejects: speaking = false, 100 ms restart, then end
\* the current handle and set sttClosed
ReplyTtsFail ==
  /\ replyTts > 0
  /\ replyTts' = replyTts - 1
  /\ speaking' = FALSE
  /\ restart100' = restart100 + 1
  /\ sttStream' = EndCurrent
  /\ sttClosed' = TRUE
  /\ UNCHANGED <<wsState, streamSid, mediaCount, old, jobs, greetTts,
                 restart50, clears, marks, now, finals, stopped, lastMedia, lim, dropped, pure, pair>>

\* ---------------------------------------------------------------- frame intervals
\* the beep (tb) and greeting (tg) callbacks without their readyState test
PlainTick_NoCheck(j) ==
  IF j.i >= j.len
  THEN jobs' = Take(jobs, j)
  ELSE jobs' = Put(Take(jobs, j), [j EXCEPT !.i = @ + 1])

\* the same callbacks with `i >= frames.length - 1` as the end test
PlainTick_OffByOne(j) ==
  IF wsState # "OPEN" \/ j.i >= j.len - 1
  THEN jobs' = Take(jobs, j)
  ELSE jobs' = Put(Take(jobs, j), [j EXCEPT !.i = @ + 1])

\* the beep (tb) and greeting (tg) callbacks: clearInterval when the socket is
\* not OPEN or the frames ran out, else send one frame
PlainTick(j) ==
  IF wsState # "OPEN" \/ j.i >= j.len
  THEN jobs' = Take(jobs, j)
  ELSE jobs' = Put(Take(jobs, j), [j EXCEPT !.i = @ + 1])

BeepTick ==
  /\ \E j \in Running("beep") : PlainTick(j)
  /\ UNCHANGED <<wsState, streamSid, sttStream, speaking, sttClosed, mediaCount, old,
                 greetTts, replyTts, restart50, restart100, clears, marks, now,
                 finals, stopped, lastMedia, lim, dropped, pure, pair>>

GreetTick ==
  /\ \E j \in Running("greet") : PlainTick(j)
  /\ UNCHANGED <<wsState, streamSid, sttStream, speaking, sttClosed, mediaCount, old,
                 greetTts, replyTts, restart50, restart100, clears, marks, now,
                 finals, stopped, lastMedia, lim, dropped, pure, pair>>

\* Date.now() for a mark label: a later millisecond than the last label, or the
\* same one when that label was produced since this interval last ran
Readings(j) == IF Len(marks) > j.seen THEN {now, now + 1} ELSE {now + 1}

\* the reply callback clearing speaking and scheduling the restart as it sends
\* the last frame, and sending the mark one tick later
ReplyStep_EarlyClear(j) ==
  IF wsState # "OPEN"
  THEN /\ jobs' = Take(jobs, j)
       /\ UNCHANGED <<marks, now, speaking, restart50>>
  ELSE IF j.i >= j.len
       THEN /\ jobs' = Take(jobs, j)
            /\ \E t \in Readings(j) : now' = t /\ marks' = Append(marks, t)
            /\ UNCHANGED <<speaking, restart50>>
       ELSE /\ jobs' = Put(Take(jobs, j), [j EXCEPT !.i = @ + 1, !.seen = Len(marks)])
            /\ speaking' = IF j.i + 1 = j.len THEN FALSE ELSE speaking
            /\ restart50' = IF j.i + 1 = j.len THEN restart50 + 1 ELSE restart50
            /\ UNCHANGED <<marks, now>>

\* the reply callback (t): clearInterval when not OPEN; out of frames: mark,
\* speaking = false, 50 ms restart; else send one frame
ReplyStep(j) ==
  IF wsState # "OPEN"
  THEN /\ jobs' = Take(jobs, j)
       /\ UNCHANGED <<marks, now, speaking, restart50>>
  ELSE IF j.i >= j.len
       THEN /\ jobs' = Take(jobs, j)
            /\ \E t \in Readings(j) : now' = t /\ marks' = Append(marks, t)
            /\ speaking' = FALSE
            /\ restart50' = restart50 + 1
       ELSE /\ jobs' = Put(Take(jobs, j), [j EXCEPT !.i = @ + 1, !.seen = Len(marks)])
            /\ UNCHANGED <<marks, now, speaking, restart50>>

ReplyTick ==
  /\ \E j \in Running("reply") : ReplyStep(j)
  /\ UNCHANGED <<wsState, streamSid, sttStream, sttClosed, mediaCount, old,
                 greetTts, replyTts, restart100, clears, finals, stopped, lastMedia, lim, dropped, pure, pair>>

\* ---------------------------------------------------------------- restart timers
\* setTimeout(() => { if (ws.readyState === ws.OPEN) startSTTStream(); }, 50)
Restart50 ==
  /\ restart50 > 0
  /\ restart50' = restart50 - 1
  /\ IF wsState = "OPEN" THEN startSTTStream
     ELSE UNCHANGED <<sttClosed, old, sttStream>>
  /\ UNCHANGED <<wsState, streamSid, speaking, mediaCount, jobs, greetTts, replyTts,
                 restart100, clears, marks, now, finals, stopped, lastMedia, lim, dropped, pure, pair>>

\* setTimeout(() => startSTTStream(), 100)
Restart100 ==
  /\ restart100 > 0
  /\ restart100' = restart100 - 1
  /\ startSTTStream
  /\ UNCHANGED <<wsState, streamSid, speaking, mediaCount, jobs, greetTts, replyTts,
                 restart50, clears, marks, now, finals, stopped, lastMedia, lim, dropped, pure, pair>>

\* ---------------------------------------------------------------- specification
\* audioContent lengths, in frames; 0 is the empty result
Lens == 0..lim.frames

Next ==
  \/ \E sid \in Sids : Start(sid)
  \/ \E ne \in BOOLEAN : Media(ne)
  \/ Stop
  \/ \E ev \in {"connected", "mark", "unknown", "unparseable"} : Ignored(ev)
  \/ WsClosing
  \/ WsClose
  \/ \E src \in Sources : SttInterim(src)
  \/ \E src \in Sources : SttFinal(src)
  \/ \E src \in Sources : SttError(src)
  \/ \E src \in Sources : SttEnd(src)
  \/ \E len \in Lens : GreetTtsOk(len)
  \/ GreetTtsFail
  \/ \E len \in Lens : ReplyTtsOk(len)
  \/ ReplyTtsFail
  \/ BeepTick
  \/ GreetTick
  \/ ReplyTick
  \/ Restart50
  \/ Restart100

Spec == Init /\ [][Next]_vars

\* ---- the callbacks Node runs once they are due: promise settlements, the
\* interval and timeout callbacks, and 'close' after readyState left OPEN.
\* Nothing obliges the peer or the STT engine to send anything.
GreetSettle == (\E len \in Lens : GreetTtsOk(len)) \/ GreetTtsFail

ReplySettle == (\E len \in Lens : ReplyTtsOk(len)) \/ ReplyTtsFail

Fairness ==
  /\ WF_vars(GreetSettle)
  /\ WF_vars(ReplySettle)
  /\ WF_vars(BeepTick)
  /\ WF_vars(GreetTick)
  /\ WF_vars(ReplyTick)
  /\ WF_vars(Restart50)
  /\ WF_vars(Restart100)
  /\ WF_vars(WsClose)

\* the runs checked for liveness take no 'media', no ignored message and no
\* interim result: those handlers touch at most mediaCount and lastMedia,
\* which nothing else reads
InitLive ==
  InitWith([inputs |-> LiveInputs, media |-> 0, frames |-> MaxFrames,
            beep |-> BeepLen, dropped |-> 0])

NextLive ==
  \/ \E sid \in Sids : Start(sid)
  \/ Stop
  \/ WsClosing
  \/ WsClose
  \/ \E src \in Sources : SttFinal(src)
  \/ \E src \in Sources : SttError(src)
  \/ \E src \in Sources : SttEnd(src)
  \/ GreetSettle
  \/ ReplySettle
  \/ BeepTick
  \/ GreetTick
  \/ ReplyTick
  \/ Restart50
  \/ Restart100

SpecLive == InitLive /\ [][NextLive]_vars /\ Fairness

\* ---- the scripted run: one 'start', one final transcript on the session it
\* opened, synthesis that succeeds, and 'stop' once the reply's mark was sent
InitScript ==
  InitWith([inputs |-> 2, media |-> 0, frames |-> MaxFrames, beep |-> BeepLen,
            dropped |-> 0])

NextScript ==
  \/ clears = 0 /\ \E sid \in Sids : Start(sid)
  \/ finals = 0 /\ SttFinal("cur")
  \/ \E len \in Lens : GreetTtsOk(len)
  \/ \E len \in Lens : ReplyTtsOk(len)
  \/ BeepTick
  \/ GreetTick
  \/ ReplyTick
  \/ Restart50
  \/ marks # <<>> /\ ~stopped /\ Stop

SpecScript == InitScript /\ [][NextScript]_vars

\* ---- the runs against a peer that keeps to the Media Streams protocol: one
\* 'start', first, and 'stop' only after it
InitCall ==
  InitWith([inputs |-> 2, media |-> MaxMedia, frames |-> MaxFrames, beep |-> BeepLen,
            dropped |-> 0])

NextCall ==
  \/ clears = 0 /\ \E sid \in Sids : Start(sid)
  \/ clears > 0 /\ \E ne \in BOOLEAN : Media(ne)
  \/ clears > 0 /\ Stop
  \/ WsClosing
  \/ WsClose
  \/ \E src \in Sources : SttFinal(src)
  \/ \E src \in Sources : SttError(src)
  \/ \E src \in Sources : SttEnd(src)
  \/ GreetSettle
  \/ ReplySettle
  \/ BeepTick
  \/ GreetTick
  \/ ReplyTick
  \/ Restart50
  \/ Restart100

SpecCall == InitCall /\ [][NextCall]_vars

\* ---- the runs checked for pacing and cancellation: one 'start' and one final
\* transcript (or two 'start'), audio of up to PaceFrames frames, so that an
\* interval is seen before, between and after its frames
InitPace ==
  InitWith([inputs |-> 2, media |-> 0, frames |-> PaceFrames, beep |-> PaceBeep,
            dropped |-> 0])

SpecPace == InitPace /\ [][NextLive]_vars

\* ---- the runs in which discarded inbound messages are counted
InitMsg ==
  InitWith([inputs |-> 2, media |-> MaxMedia, frames |-> MaxFrames, beep |-> BeepLen,
            dropped |-> MaxDropped])

SpecMsg == InitMsg /\ [][Next]_vars

\* ---------------------------------------------------------------- module-level functions
MU_LAW_MAX == 8191

BIAS == 132

QUANT_MASK == 15

SEG_SHIFT == 4

CHUNK == 160

sr == 8000

freq == 440

Min(a, b) == IF a < b THEN a ELSE b

Max(a, b) == IF a > b THEN a ELSE b

\* the bit operators of JavaScript on two's complement integers, bit by bit
\* (x % 2 is the low bit and x \div 2 the arithmetic shift, also for x < 0)
RECURSIVE AndBits(_, _)
AndBits(a, b) ==
  IF a = 0 \/ b = 0 THEN 0
  ELSE (a % 2) * (b % 2) + 2 * AndBits(a \div 2, b \div 2)

RECURSIVE OrBits(_, _)
OrBits(a, b) ==
  IF a = 0 THEN b
  ELSE IF b = 0 THEN a
  ELSE Max(a % 2, b % 2) + 2 * OrBits(a \div 2, b \div 2)

\* x & y for a mask y >= 0, x | y for x, y >= 0, ~x, x >> n, x << n
BitAnd(x, y) == AndBits(x, y)

BitOr(x, y) == OrBits(x, y)

BitNot(x) == -x - 1

Shr(x, n) == x \div (2 ^ n)

Shl(x, n) == x * (2 ^ n)

\* let seg = 0; for (let v = ...; v; v >>= 1) seg++;
RECURSIVE SegLoop(_)
SegLoop(v) == IF v = 0 THEN 0 ELSE 1 + SegLoop(Shr(v, 1))

linear2ulaw(sample) ==
  LET clamped == Max(-32768, Min(32767, sample))
      sign    == BitAnd(Shr(clamped, 8), 128)
      mag     == IF sign # 0 THEN -clamped ELSE clamped
      clipped == IF mag > MU_LAW_MAX THEN MU_LAW_MAX ELSE mag
      pcm     == clipped + BIAS
      seg     == SegLoop(Shr(pcm, 7))
      uval    == BitOr(Shl(seg, SEG_SHIFT), BitAnd(Shr(pcm, seg + 3), QUANT_MASK))
  IN  BitAnd(BitNot(BitOr(uval, sign)), 255)

\* Uint8Array.prototype.slice(a, b) and subarray(a, b): b is clamped to the length
Slice(buf, a, b) == SubSeq(buf, a + 1, Min(b, Len(buf)))

\* Buffer.from(bytes).toString("base64"): one symbol 0..63 per 6 bits, 4 symbols
\* per 3 bytes, the last group padded with '=' (written 64)
Base64(bytes) ==
  LET n == Len(bytes)
      At(k) == IF k <= n THEN bytes[k] ELSE 0
      Sym(q) ==
        LET g == (q - 1) \div 4
            r == (q - 1) % 4
            triple == At(3 * g + 1) * 65536 + At(3 * g + 2) * 256 + At(3 * g + 3)
        IN  IF r > 0 /\ 3 * g + r > n THEN 64
            ELSE (triple \div (64 ^ (3 - r))) % 64
  IN  [q \in 1..(4 * ((n + 2) \div 3)) |-> Sym(q)]

\* for (let i = 0; i < audio.length; i += CHUNK) frames.push(base64 of the chunk)
\* the framing loop with `i + CHUNK <= length` as its test
RECURSIVE PushFrames_WholeOnly(_, _)
PushFrames_WholeOnly(buf, i) ==
  IF i + CHUNK <= Len(buf)
  THEN <<Base64(Slice(buf, i, i + CHUNK))>> \o PushFrames_WholeOnly(buf, i + CHUNK)
  ELSE <<>>

\* for (let i = 0; i < audio.length; i += CHUNK) frames.push(base64 of the chunk)
RECURSIVE PushFrames(_, _)
PushFrames(buf, i) ==
  IF i < Len(buf)
  THEN <<Base64(Slice(buf, i, i + CHUNK))>> \o PushFrames(buf, i + CHUNK)
  ELSE <<>>

\* (Math.sin(2 * Math.PI * freq * i / sr) * 0.35 * 32767) | 0, with the sine
\* of the half period replaced by Bhaskara's rational approximation
\* 4h(H-h) / (5H^2/4 - h(H-h)), H = sr/2, which is within 0.002 of it; both
\* terms are kept in thousands, and 45874 is 4 * 0.35 * 32767
ToneSample(i) ==
  LET phase == (freq * i) % sr
      H     == sr \div 2
      h     == phase % H
      num   == (h * (H - h)) \div 1000
      den   == (5 * H * H) \div 4000 - num
      mag   == (45874 * num) \div den
  IN  IF phase >= H THEN -mag ELSE mag

\* makeBeepFrames: the encoded tone, ulaw[i] = linear2ulaw(sample i), N = sr * secs
ToneUlaw(secs) == [k \in 1..(sr * secs) |-> linear2ulaw(ToneSample(k - 1))]

makeBeepFrames(secs) == PushFrames(ToneUlaw(secs), 0)

\* ttsMuLawFrames after the await: resp.audioContent || new Uint8Array(), framed
AudioOf(resp) == IF resp.has THEN resp.audioContent ELSE <<>>

ttsMuLawFrames(resp) == PushFrames(AudioOf(resp), 0)

\* the three functions applied to an argument
Encode ==
  /\ call.fn = "linear2ulaw" /\ ret = NoCall
  /\ ret' = [fn |-> call.fn, val |-> linear2ulaw(call.sample)]
  /\ UNCHANGED <<wsState, streamSid, sttStream, speaking, sttClosed, mediaCount, old,
                 jobs, greetTts, replyTts, restart50, restart100, clears, marks, now,
                 finals, stopped, lastMedia, lim, dropped, call, pair>>

TtsFrames ==
  /\ call.fn = "ttsMuLawFrames" /\ ret = NoCall
  /\ ret' = [fn |-> call.fn, val |-> ttsMuLawFrames(call.resp)]
  /\ UNCHANGED <<wsState, streamSid, sttStream, speaking, sttClosed, mediaCount, old,
                 jobs, greetTts, replyTts, restart50, restart100, clears, marks, now,
                 finals, stopped, lastMedia, lim, dropped, call, pair>>

MakeBeep ==
  /\ call.fn = "makeBeepFrames" /\ ret = NoCall
  /\ ret' = [fn |-> call.fn, val |-> makeBeepFrames(call.secs)]
  /\ UNCHANGED <<wsState, streamSid, sttStream, speaking, sttClosed, mediaCount, old,
                 jobs, greetTts, replyTts, restart50, restart100, clears, marks, now,
                 finals, stopped, lastMedia, lim, dropped, call, pair>>

\* arguments: every 16-bit sample and Over values beyond each end; audio of
\* every length up to MaxAudio whose byte k is k times a stride, and a response
\* without audioContent; tones of 0..MaxSecs seconds
Samples == (-32768 - Over)..(32767 + Over)

Strides == {1, 7}

Audios == {[k \in 1..n |-> (k * m) % 256] : n \in 0..MaxAudio, m \in Strides}

Calls ==
  {[fn |-> "linear2ulaw", sample |-> x] : x \in Samples}
    \cup {[fn |-> "ttsMuLawFrames", resp |-> [has |-> TRUE, audioContent |-> a]] : a \in Audios}
    \cup {[fn |-> "ttsMuLawFrames", resp |-> [has |-> FALSE]]}
    \cup {[fn |-> "makeBeepFrames", secs |-> n] : n \in 0..MaxSecs}

InitPure ==
  /\ wsState = "OPEN"
  /\ streamSid = 0
  /\ sttStream = Null
  /\ speaking = FALSE
  /\ sttClosed = FALSE
  /\ mediaCount = 0
  /\ old = [open |-> 0, ended |-> 0]
  /\ jobs = EmptyBag
  /\ greetTts = 0
  /\ replyTts = 0
  /\ restart50 = 0
  /\ restart100 = 0
  /\ clears = 0
  /\ marks = <<>>
  /\ now = 0
  /\ finals = 0
  /\ stopped = FALSE
  /\ lastMedia = NoMedia
  /\ lim = [inputs |-> 0, media |-> 0, frames |-> 0, beep |-> 0, dropped |-> 0]
  /\ dropped = 0
  /\ call \in Calls
  /\ ret = NoCall
  /\ env = [c \in Conns |-> NoEnv]
  /\ run = [c \in Conns |-> NoRun]
  /\ wire = {}
  /\ actor = 0

NextPure == Encode \/ TtsFrames \/ MakeBeep

SpecPure == InitPure /\ [][NextPure]_vars

\* ---------------------------------------------------------------- two connections
\* wss.on("connection") runs once per call; what follows is the part of each
\* handler that reads or writes a variable, the socket or a stream, for two
\* calls whose callbacks interleave.  Streams and stream ids are named after
\* the connection they were made for.
single == <<wsState, streamSid, sttStream, speaking, sttClosed, mediaCount,
            old, jobs, greetTts, replyTts, restart50, restart100,
            clears, marks, now, finals, stopped, lastMedia, lim, dropped>>

\* all of a connection's variables declared at module level instead
Scope_Module(c) == 1

\* the variables a callback of connection c refers to: those declared by its
\* own invocation of the connection callback
Scope(c) == c

Sent(c, sid) == [op |-> "send", conn |-> c, tag |-> sid]

Written(c, stream) == [op |-> "write", conn |-> c, tag |-> stream]

Set(c, field, value) == env' = [env EXCEPT ![Scope(c)][field] = value]

\* 'start' of call c: streamSid, clear, beep interval, startSTTStream()
Start2(c) ==
  /\ run[c].starts < PairEvents
  /\ env' = [env EXCEPT ![Scope(c)] =
               [@ EXCEPT !.streamSid = c, !.sttStream = c, !.sttClosed = FALSE]]
  /\ wire' = wire \cup {Sent(c, env'[Scope(c)].streamSid)}
  /\ run' = [run EXCEPT ![c].starts = @ + 1, ![c].tb = 0]
  /\ actor' = c
  /\ UNCHANGED <<single, pure>>

\* 'media' of call c
Media2(c) ==
  LET e == env[Scope(c)]
  IN  /\ run[c].medias < PairEvents
      /\ Set(c, "mediaCount", e.mediaCount + 1)
      /\ wire' = IF ~e.speaking /\ e.sttStream # 0 /\ ~e.sttClosed
                 THEN wire \cup {Written(c, e.sttStream)}
                 ELSE wire
      /\ run' = [run EXCEPT ![c].medias = @ + 1]
      /\ actor' = c
      /\ UNCHANGED <<single, pure>>

\* a final transcript on a stream opened for call c, up to the await
Final2(c) ==
  /\ run[c].starts > 0 /\ run[c].finals < PairEvents /\ ~run[c].awaiting
  /\ Set(c, "speaking", TRUE)
  /\ run' = [run EXCEPT ![c].finals = @ + 1, ![c].awaiting = TRUE]
  /\ actor' = c
  /\ UNCHANGED <<single, pure, wire>>

\* the reply of call c is synthesized: reply interval, end(), sttClosed = true
Reply2(c) ==
  /\ run[c].awaiting
  /\ Set(c, "sttClosed", TRUE)
  /\ run' = [run EXCEPT ![c].awaiting = FALSE, ![c].t = 0]
  /\ actor' = c
  /\ UNCHANGED <<single, pure, wire>>

\* the synthesis fails: speaking = false, 100 ms restart, end(), sttClosed = true
ReplyFail2(c) ==
  /\ run[c].awaiting
  /\ env' = [env EXCEPT ![Scope(c)] = [@ EXCEPT !.speaking = FALSE, !.sttClosed = TRUE]]
  /\ run' = [run EXCEPT ![c].awaiting = FALSE, ![c].restart = TRUE]
  /\ actor' = c
  /\ UNCHANGED <<single, pure, wire>>

\* the beep interval of call c: a frame of the shared BEEP_FRAMES on its socket
BeepTick2(c) ==
  /\ run[c].tb >= 0
  /\ IF run[c].tb >= BeepLen
     THEN /\ run' = [run EXCEPT ![c].tb = -1]
          /\ wire' = wire
     ELSE /\ run' = [run EXCEPT ![c].tb = @ + 1]
          /\ wire' = wire \cup {Sent(c, env[Scope(c)].streamSid)}
  /\ actor' = c
  /\ UNCHANGED <<single, pure, env>>

\* the reply interval of call c: a frame, or mark, speaking = false and restart
ReplyTick2(c) ==
  /\ run[c].t >= 0
  /\ wire' = wire \cup {Sent(c, env[Scope(c)].streamSid)}
  /\ IF run[c].t >= MaxFrames
     THEN /\ run' = [run EXCEPT ![c].t = -1, ![c].restart = TRUE]
          /\ Set(c, "speaking", FALSE)
     ELSE /\ run' = [run EXCEPT ![c].t = @ + 1]
          /\ env' = env
  /\ actor' = c
  /\ UNCHANGED <<single, pure>>

\* a restart timeout of call c: startSTTStream()
Restart2(c) ==
  /\ run[c].restart
  /\ env' = [env EXCEPT ![Scope(c)] = [@ EXCEPT !.sttStream = c, !.sttClosed = FALSE]]
  /\ run' = [run EXCEPT ![c].restart = FALSE]
  /\ actor' = c
  /\ UNCHANGED <<single, pure, wire>>

\* 'end' of a stream opened for call c: sttClosed = true
SttEnd2(c) ==
  /\ run[c].starts > 0
  /\ Set(c, "sttClosed", TRUE)
  /\ actor' = c
  /\ UNCHANGED <<single, pure, run, wire>>

InitTwo ==
  InitWith([inputs |-> 0, media |-> 0, frames |-> 0, beep |-> 0, dropped |-> 0])

NextTwo ==
  \E c \in Conns :
    \/ Start2(c)
    \/ Media2(c)
    \/ Final2(c)
    \/ Reply2(c)
    \/ ReplyFail2(c)
    \/ BeepTick2(c)
    \/ ReplyTick2(c)
    \/ Restart2(c)
    \/ SttEnd2(c)

SpecTwo == InitTwo /\ [][NextTwo]_vars

TypeOK ==
  /\ wsState \in {"OPEN", "CLOSING", "CLOSED"}
  /\ streamSid \in Sids \cup {0}
  /\ speaking \in BOOLEAN /\ sttClosed \in BOOLEAN /\ stopped \in BOOLEAN
  /\ mediaCount \in 0..lim.media
  /\ clears \in 0..lim.inputs /\ finals \in 0..lim.inputs
  /\ Len(marks) <= finals

\* ================================================================ properties
\* the session forwards inbound audio: an open handle, no flag in the way
Listening == StreamOpen(sttStream) /\ ~speaking /\ ~sttClosed

\* this step ran startSTTStream()
Opened == sttStream' = NewStream /\ (sttStream # NewStream \/ old'.open = old.open + 1)

\* this step is job j's callback sending one 'media' frame
Stepped(j) ==
  \E k \in BagToSet(jobs') :
    /\ k.kind = j.kind /\ k.len = j.len /\ k.late = j.late /\ k.i = j.i + 1
    /\ jobs' = Put(Take(jobs, j), k)

\* this step is reply job j's callback sending its 'mark'
Marked(j) == j.kind = "reply" /\ Len(marks') > Len(marks) /\ jobs' = Take(jobs, j)

\* this step is the callback in which a job of this kind, having sent all of its
\* (one or more) frames on an open socket, clears its interval
Completes(kind) ==
  \E j \in Running(kind) :
    wsState = "OPEN" /\ j.len > 0 /\ j.i >= j.len /\ jobs' = Take(jobs, j)

Unique(labels) ==
  \A a, b \in 1..Len(labels) : a # b => labels[a] # labels[b]

\* C1: a 'media' message handled while speaking is true writes nothing to any
\* STT stream.
C1_BargeInGuard == lastMedia.seen /\ lastMedia.spk => ~lastMedia.wrote

\* a 'media' message was handled while speaking, with an open handle it could
\* have been written to
C1_Witness ==
  /\ lastMedia.seen /\ lastMedia.spk
  /\ speaking /\ StreamOpen(sttStream) /\ ~sttClosed

\* C2: at most one recognition stream opened by startSTTStream and not yet
\* ended is open at any instant.
C2_AtMostOneOpen == OpenCount <= 1

\* C3: speaking is true exactly while a playback job (tone, greeting or reply)
\* is emitting frames.
C3_SpeakingIffEmitting == speaking <=> (jobs # EmptyBag)

\* C4: after a final transcript, with the transport open, the handler ends the
\* handle it holds and the session eventually listens again on a fresh stream
\* with speaking cleared.
C4_RestartAfterFinal ==
  /\ [][replyTts' < replyTts => sttClosed' /\ ~StreamOpen(sttStream')]_vars
  /\ (replyTts > 0) ~> (wsState # "OPEN" \/ Listening)

\* a reply was played to its mark and the session listens again
C4_Witness == marks # <<>> /\ finals > 0 /\ wsState = "OPEN" /\ Listening

\* C5 (the transport-closed case): once the 'close' handler has run, no step
\* opens a new STT stream.
C5_NoStreamAfterClose == [][wsState = "CLOSED" => ~Opened]_vars

\* C6: once 'stop' has been handled, a playback job that was running when it
\* arrived sends no further 'media' frame and no 'mark'.
C6_NoFrameAfterStop ==
  [][stopped => \A j \in BagToSet(jobs) : ~j.late => ~Stepped(j) /\ ~Marked(j)]_vars

\* C7: a greeting or reply job that sends all its frames produces exactly one
\* 'mark', and no two marks of the call carry the same label.
C7_MarkerCorrelation ==
  [][ /\ (Completes("greet") \/ Completes("reply") => Len(marks') = Len(marks) + 1)
      /\ Unique(marks') ]_vars

\* C8: after the STT engine reports an error on the open handle, with the
\* transport open and no 'stop' received, a fresh STT session is eventually open.
C8_RestartAfterError ==
  (sttStream.err /\ ~sttStream.ended /\ ~stopped /\ wsState = "OPEN")
    ~> (wsState # "OPEN" \/ stopped \/ StreamOpen(sttStream))

\* a reply synthesis failed (rejected, or resolved with no audio) and its
\* recovery is still due
TtsFailed == restart100 > 0 \/ \E j \in Running("reply") : j.len = 0

\* C9: a rejected reply synthesis clears speaking, and after a rejection or an
\* empty result, with the transport open, the session eventually listens again
\* on a fresh stream.
C9_TtsFailureRecovers ==
  /\ [][restart100' > restart100 => ~speaking']_vars
  /\ TtsFailed ~> (wsState # "OPEN" \/ Listening)

\* the catch branch ran: speaking is cleared and the 100 ms restart is pending
C9_Witness == restart100 > 0 /\ ~speaking /\ wsState = "OPEN" /\ ~StreamOpen(sttStream)

\* the turn controller's state as the closure's variables show it: Finalizing
\* from the final transcript until the reply's interval starts, Speaking while
\* it runs, Greeting while the greeting is synthesized or played
Phase ==
  IF stopped THEN "Closed"
  ELSE IF clears = 0 THEN "Idle"
  ELSE IF speaking THEN (IF Running("reply") = {} THEN "Finalizing" ELSE "Speaking")
  ELSE IF greetTts > 0 \/ Running("greet") # {} THEN "Greeting"
  ELSE "Listening"

CycleEdges ==
  { <<"Idle", "Greeting">>, <<"Greeting", "Listening">>, <<"Listening", "Finalizing">>,
    <<"Finalizing", "Speaking">>, <<"Speaking", "Listening">>, <<"Listening", "Closed">> }

\* C10: in the scripted run start, final transcript, playback complete, stop,
\* the session changes state only along Idle, Greeting, Listening, Finalizing,
\* Speaking, Listening, Closed, and from 'start' to 'stop' exactly one STT
\* session is open.
C10_TurnCycle ==
  [][ /\ (Phase' # Phase => <<Phase, Phase'>> \in CycleEdges)
      /\ (clears' > 0 /\ ~stopped' => OpenCount' = 1) ]_vars

\* the teardown the code has: 'stop' and the socket's 'close' each end the
\* handle the closure holds at that moment
Teardown == Stop \/ WsClose

\* C11: a teardown step ('stop' or socket close) taken after 'stop' was already
\* handled changes no STT stream: the session's stream was ended once, by the
\* first teardown.
C11_IdempotentTeardown == [][stopped /\ Teardown => sttStream' = sttStream]_vars

\* final-transcript handlers that have not finished: at the await, or with
\* their reply interval still running
InHandling == replyTts + BagCardinality([j \in Running("reply") |-> jobs[j]])

\* C12: final-transcript handling happens at most once per STT session; so
\* while only one session was ever opened (one 'start', and no handler has got
\* as far as scheduling a restart), at most one final transcript was handled.
C12_FinalOncePerSession == clears = 1 /\ InHandling = finals => finals <= 1

\* this step is a callback of job j (only its own callback takes a job away)
Ticked(j) == CopiesIn(j, jobs') < CopiesIn(j, jobs)

\* C13: a playback job's callback that finds the socket not OPEN clears its
\* interval and sends nothing, and no step sends 'clear', 'media' or 'mark'
\* while the socket is not OPEN.
C13_Cancellation ==
  [][wsState # "OPEN" =>
       /\ \A j \in BagToSet(jobs) : (Ticked(j) => jobs' = Take(jobs, j)) /\ ~Stepped(j)
       /\ marks' = marks
       /\ clears' = clears]_vars

\* the socket is not OPEN and the one reply's interval is gone although the
\* reply never reached its mark (speaking was never cleared): it was cancelled
C13_Witness ==
  /\ wsState # "OPEN" /\ finals = 1 /\ speaking
  /\ replyTts = 0 /\ Running("reply") = {} /\ marks = <<>>

\* C14: on an open socket each callback of a playback job sends the one frame
\* at its index and moves the index on by one, until the index reaches the
\* number of frames; only then the job ends, a reply with its 'mark'.
C14_PacingOrder ==
  /\ [](\A j \in BagToSet(jobs) : j.i <= j.len)
  /\ [][wsState = "OPEN" =>
          \A j \in BagToSet(jobs) :
            Ticked(j) =>
              IF j.i < j.len
              THEN Stepped(j) /\ marks' = marks
              ELSE /\ jobs' = Take(jobs, j)
                   /\ Len(marks') = Len(marks) + (IF j.kind = "reply" THEN 1 ELSE 0)]_vars

\* a reply of several frames has sent them all and its completion is due
C14_Witness ==
  /\ wsState = "OPEN"
  /\ \E j \in Running("reply") : j.len = lim.frames /\ j.len > 1 /\ j.i = j.len

\* C15: once 'stop' has been handled, no step changes the session's variables,
\* writes to an STT stream or sends on the socket.
C15_NoEventAfterClosed ==
  [][stopped =>
       /\ UNCHANGED <<streamSid, sttStream, speaking, sttClosed, mediaCount>>
       /\ \A j \in BagToSet(jobs) : ~Stepped(j)
       /\ clears' = clears /\ marks' = marks
       /\ ~lastMedia'.wrote]_vars

\* C16: an inbound message that no branch handles ('connected', 'mark', an
\* unknown event, or a payload that does not parse) changes nothing of the
\* session and sends nothing.
C16_MalformedDiscarded ==
  [][dropped' # dropped =>
       UNCHANGED <<wsState, streamSid, sttStream, speaking, sttClosed, mediaCount, old,
                   jobs, greetTts, replyTts, restart50, restart100, clears, marks, now,
                   finals, stopped, lastMedia>>]_vars

\* a message was discarded while the session was listening on an open stream
\* with the tone still to play
C16_Witness ==
  dropped > 0 /\ Listening /\ wsState = "OPEN" /\ Running("beep") # {}

\* ---- G.711 mu-law as the references give it
Abs(x) == IF x < 0 THEN -x ELSE x

Clamp16(x) == Max(-32768, Min(32767, x))

\* the segment of a biased 16-bit magnitude: 0 for 132..255, up to 7 for 16384..32767
Segment(biased) == SegLoop(biased \div 128) - 1

\* the 16-bit reference encoder: clip at 32635, bias 0x84, complement of
\* sign | segment << 4 | mantissa
G711Encode16(x) ==
  LET s      == Clamp16(x)
      sign   == IF s < 0 THEN 128 ELSE 0
      biased == Min(Abs(s), 32635) + 132
      seg    == Segment(biased)
  IN  255 - (sign + 16 * seg + ((biased \div (2 ^ (seg + 3))) % 16))

\* the 14-bit reference encoder (the sample shifted right by two, clip at
\* 8159, bias 33, segment by table search)
G711Encode14(x) ==
  LET s      == Clamp16(x) \div 4
      mask   == IF s < 0 THEN 127 ELSE 255
      biased == Min(Abs(s), 8159) + 33
      seg    == IF biased <= 63 THEN 0 ELSE SegLoop(biased) - 6
  IN  IF seg >= 8 THEN mask - 127
      ELSE mask - (16 * seg + ((biased \div (2 ^ (seg + 1))) % 16))

\* the reference decoder
G711Decode(u) ==
  LET v == 255 - u
      t == ((v % 16) * 8 + 132) * (2 ^ ((v \div 16) % 8))
  IN  IF v >= 128 THEN 132 - t ELSE t - 132

\* the quantization step of the segment a sample falls in: 8 in segment 0,
\* doubling up to 1024 in segment 7
Step(x) == 2 ^ (Segment(Min(Abs(Clamp16(x)), 32635) + 132) + 3)

\* C17: for every sample, linear2ulaw returns the code of the G.711 mu-law
\* encoder (either reference), a sample outside the 16-bit range being encoded
\* as the nearest end of the range.
C17_BitExactUlaw ==
  ret.fn = "linear2ulaw" =>
    ret.val \in {G711Encode16(call.sample), G711Encode14(call.sample)}

\* ---- frames as the peer reads them
\* the bytes a base64 text stands for
Base64Decode(text) ==
  LET pads == Cardinality({q \in 1..Len(text) : text[q] = 64})
      Val(q) == IF text[q] = 64 THEN 0 ELSE text[q]
      Byte(k) ==
        LET g == (k - 1) \div 3
            triple == Val(4 * g + 1) * 262144 + Val(4 * g + 2) * 4096
                        + Val(4 * g + 3) * 64 + Val(4 * g + 4)
        IN  (triple \div (256 ^ (2 - ((k - 1) % 3)))) % 256
  IN  [k \in 1..(3 * (Len(text) \div 4) - pads) |-> Byte(k)]

RECURSIVE Concat(_)
Concat(seqs) == IF seqs = <<>> THEN <<>> ELSE Head(seqs) \o Concat(Tail(seqs))

\* the encoded audio the call frames
Framed ==
  IF call.fn = "makeBeepFrames" THEN ToneUlaw(call.secs) ELSE AudioOf(call.resp)

Ceil(a, b) == (a + b - 1) \div b

\* C18: framing a buffer of L bytes gives ceil(L/160) frames of at most 160
\* bytes, all but the last of exactly 160, which put together in order are the
\* buffer; a tone of N seconds gives ceil(N*8000/160) frames.
C18_Framing ==
  ret.fn \in {"ttsMuLawFrames", "makeBeepFrames"} =>
    LET frames == [k \in 1..Len(ret.val) |-> Base64Decode(ret.val[k])]
        n == Len(frames)
    IN  /\ n = Ceil(Len(Framed), CHUNK)
        /\ \A k \in 1..n : Len(frames[k]) <= CHUNK /\ (k < n => Len(frames[k]) = CHUNK)
        /\ Concat(frames) = Framed
        /\ ret.fn = "makeBeepFrames" => n = Ceil(call.secs * sr, CHUNK)

\* audio that ends in a partial frame after at least two whole ones was framed
C18_Witness ==
  /\ ret.fn = "ttsMuLawFrames" /\ call.resp.has
  /\ Len(call.resp.audioContent) > 2 * CHUNK
  /\ Len(call.resp.audioContent) % CHUNK # 0
  /\ Len(ret.val) = 3

\* C19: for every sequence of inbound events the 'clear' message is sent at
\* most once per call, and before any 'media' or 'mark'.
C19_ClearOnce ==
  /\ [](clears <= 1)
  /\ [][\A j \in BagToSet(jobs) : Stepped(j) \/ Marked(j) => clears > 0]_vars

\* C20: decoding the code of a 16-bit sample with the G.711 decoder gives a
\* value within one quantization step, of the sample's segment, of the sample.
C20_RoundTrip ==
  ret.fn = "linear2ulaw" /\ call.sample \in -32768..32767 =>
    Abs(G711Decode(ret.val) - call.sample) <= Step(call.sample)

\* C21: with two concurrent calls, a callback of one call leaves the other
\* call's variables unchanged, audio of a call is written only to a stream
\* opened for that call, and every message sent on a call's socket carries
\* that call's stream id.
C21_SessionIsolation ==
  /\ [](\A w \in wire : w.tag = w.conn)
  /\ [][\A d \in Conns : d # actor' => env'[d] = env[d]]_vars

\* call 1 is playing its reply while call 2, still in its tone, has had its
\* audio forwarded
C21_Witness ==
  /\ env[1].speaking /\ run[1].t >= 0
  /\ ~env[2].speaking /\ run[2].tb >= 0
  /\ Written(2, 2) \in wire /\ Sent(1, 1) \in wire

\* C22: events of a superseded STT stream leave the current one usable:
\* whenever the current stream is open and speaking is false, sttClosed is
\* false, so that the media branch writes inbound audio to it.
C22_SupersededIsInert == StreamOpen(sttStream) /\ ~speaking => ~sttClosed

\* C23: the media branch writes only to a stream that is open: never to a
\* handle on which end() was called or whose stream has ended or failed.
C23_WriteOnlyOpen == lastMedia.wrote => ~lastMedia.dead

\* the engine closed the current stream (single-utterance auto-close) with no
\* final transcript in handling; this side had not ended it
Stalled ==
  /\ sttStream.set /\ sttStream.rend /\ ~sttStream.err /\ ~sttStream.ended
  /\ ~speaking /\ replyTts = 0 /\ ~stopped /\ wsState = "OPEN"

\* C24: when the engine closes the current STT stream while the session
\* listens on an open socket, eventually a stream is open again with sttClosed
\* false (or a final transcript, 'stop' or the socket closing intervenes).
C24_NoListeningStall ==
  Stalled ~> (Listening \/ speaking \/ stopped \/ wsState # "OPEN")

\* C25: in a call with one 'start', playback jobs do not interleave their
\* frames: at most one job at a time is between its first and its last frame.
C25_OneJobEmits ==
  clears = 1 =>
    \A j, k \in BagToSet(jobs) :
      (0 < j.i /\ j.i < j.len /\ 0 < k.i /\ k.i < k.len) => j = k /\ jobs[j] = 1

\* C26: a reply job sends its 'mark' in the callback that finds all frames
\* sent on an open socket, and that callback ends the job, clears speaking and
\* schedules the restart without opening a stream; the callbacks that send the
\* job's frames send no mark, leave speaking alone and schedule nothing.
C26_MarkOrdering ==
  [][\A j \in Running("reply") :
       /\ Marked(j) =>
            /\ wsState = "OPEN" /\ j.i = j.len
            /\ ~speaking' /\ restart50' = restart50 + 1
            /\ sttStream' = sttStream /\ sttClosed' = sttClosed
       /\ Stepped(j) =>
            /\ marks' = marks /\ speaking' = speaking /\ restart50' = restart50
            /\ sttStream' = sttStream
       /\ Ticked(j) /\ wsState = "OPEN" /\ j.i >= j.len => Marked(j)]_vars

\* a reply of several frames has just been marked: speaking is cleared, the
\* restart is pending and no stream has been opened yet
C26_Witness ==
  /\ lim.frames > 1 /\ Len(marks) = 1 /\ finals = 1 /\ clears = 1
  /\ ~speaking /\ restart50 = 1 /\ Running("reply") = {}
  /\ ~StreamOpen(sttStream) /\ sttClosed /\ wsState = "OPEN"

\* C27: the step that handles 'start' issues the greeting TTS call and opens a
\* fresh STT stream with sttClosed false; the settling of a greeting TTS call,
\* success or failure, leaves the stream, sttClosed, speaking and streamSid as
\* they are, and a settling that starts no playback changes nothing else.
C27_SttNotBlockedByGreeting ==
  /\ [][clears' > clears =>
          /\ greetTts' = greetTts + 1
          /\ sttStream' = NewStream /\ StreamOpen(sttStream') /\ ~sttClosed']_vars
  /\ [][greetTts' < greetTts =>
          /\ UNCHANGED <<streamSid, sttStream, sttClosed, speaking, mediaCount, old>>
          /\ jobs' = jobs =>
                UNCHANGED <<wsState, replyTts, restart50, restart100, clears, marks,
                            finals, stopped, lastMedia>>]_vars

\* the greeting TTS call of the only 'start' is still pending and the stream
\* opened by that start is open
C27_Witness ==
  /\ clears = 1 /\ greetTts = 1 /\ finals = 0
  /\ StreamOpen(sttStream) /\ ~sttClosed /\ ~speaking /\ wsState = "OPEN"

====
